---- MODULE Spec2Model ----
(***************************************************************************)
(* A model of the portfolio backtester: PortfolioBacktester (the weight    *)
(* allocator, the lagged return aggregation, the value reconstruction,     *)
(* the data fetch with its sample-data fallback, run) and                  *)
(* PerformanceAnalyzer.calculate_metrics.                                  *)
(*                                                                         *)
(* Numbers.  The program computes in IEEE doubles through pandas/numpy.    *)
(* The model computes in exact extended rationals: a number is a pair      *)
(* <<n, d>> in lowest terms with d > 0; <<0, 0>> is NaN and <<1, 0>>,      *)
(* <<-1, 0>> are +Inf and -Inf.  Rounding error of the doubles is outside  *)
(* the model.  Metrics that are irrational (a square root, a fractional    *)
(* power) are kept as exact symbolic terms (see the Metric terms below).   *)
(***************************************************************************)
EXTENDS Integers, Sequences, FiniteSets, TLC

----------------------------------------------------------------------------
(* Extended rational arithmetic (numpy float64 semantics, exact).          *)

Abs(n) == IF n < 0 THEN -n ELSE n

Sign(n) == IF n < 0 THEN -1 ELSE IF n > 0 THEN 1 ELSE 0

RECURSIVE Gcd(_, _)
Gcd(a, b) == IF b = 0 THEN a ELSE Gcd(b, a % b)

Lcm(a, b) == (a \div Gcd(a, b)) * b

NaN == <<0, 0>>

\* n/d as a number: x/0 is NaN for x = 0 and a signed infinity otherwise.
Q(n, d) ==
    IF d = 0 THEN <<Sign(n), 0>>
    ELSE LET g == Gcd(Abs(n), Abs(d))
         IN  <<Sign(d) * (n \div g), Abs(d) \div g>>

Zero == <<0, 1>>

One == <<1, 1>>

IsNaN(x) == x = NaN

IsFinite(x) == x[2] # 0

FNeg(x) == <<-x[1], x[2]>>

FAbs(x) == <<Abs(x[1]), x[2]>>

FAdd(x, y) ==
    IF IsNaN(x) \/ IsNaN(y) THEN NaN
    ELSE IF ~IsFinite(x) THEN (IF ~IsFinite(y) /\ y # x THEN NaN ELSE x)
    ELSE IF ~IsFinite(y) THEN y
    ELSE LET l == Lcm(x[2], y[2])
         IN  Q(x[1] * (l \div x[2]) + y[1] * (l \div y[2]), l)

FSub(x, y) == FAdd(x, FNeg(y))

FMul(x, y) ==
    IF IsNaN(x) \/ IsNaN(y) THEN NaN
    ELSE IF ~IsFinite(x) \/ ~IsFinite(y) THEN <<Sign(x[1]) * Sign(y[1]), 0>>
    ELSE LET g1 == Gcd(Abs(x[1]), y[2])
             g2 == Gcd(Abs(y[1]), x[2])
         IN  IF x[1] = 0 \/ y[1] = 0 THEN Zero
             ELSE <<(x[1] \div g1) * (y[1] \div g2), (x[2] \div g2) * (y[2] \div g1)>>

FDiv(x, y) ==
    IF IsNaN(x) \/ IsNaN(y) THEN NaN
    ELSE IF ~IsFinite(y) THEN (IF IsFinite(x) THEN Zero ELSE NaN)
    ELSE IF y[1] = 0 THEN <<Sign(x[1]), 0>>
    ELSE FMul(x, <<Sign(y[1]) * y[2], Abs(y[1])>>)

\* x < y as numpy compares: every comparison with NaN is false.
FLt(x, y) ==
    /\ ~IsNaN(x)
    /\ ~IsNaN(y)
    /\ x # y
    /\ IF ~IsFinite(x) THEN x[1] < 0
       ELSE IF ~IsFinite(y) THEN y[1] > 0
       ELSE LET l == Lcm(x[2], y[2])
            IN  x[1] * (l \div x[2]) < y[1] * (l \div y[2])

FLe(x, y) == ~IsNaN(x) /\ ~IsNaN(y) /\ (x = y \/ FLt(x, y))

----------------------------------------------------------------------------
(* pandas objects.  A DataFrame is [index, columns, cell]: index a set of  *)
(* time labels (integers, unique, read in ascending order), columns a set  *)
(* of symbols, cell[l][c] a number.  A Series is [index, val].             *)

SetMin(S) == CHOOSE m \in S : \A k \in S : m <= k

SetMax(S) == CHOOSE m \in S : \A k \in S : k <= m

\* The label before l in index idx (l is not the first label).
PrevLabel(idx, l) == SetMax({k \in idx : k < l})

IsFirst(idx, l) == \A k \in idx : l <= k

Frame(idx, cols, f) == [index |-> idx, columns |-> cols, cell |-> f]

Series(idx, f) == [index |-> idx, val |-> f]

\* sum(skipna=True) of f over D: NaN cells are left out, an empty sum is 0.
RECURSIVE NanSum(_, _)
NanSum(f, D) ==
    IF D = {} THEN Zero
    ELSE LET c == CHOOSE c \in D : TRUE
         IN  FAdd(IF IsNaN(f[c]) THEN Zero ELSE f[c], NanSum(f, D \ {c}))

\* DataFrame.pct_change(): row l is p[l] / p[previous label] - 1; the first row is NaN.
FramePctChange(df) ==
    Frame(df.index, df.columns,
          [l \in df.index |-> [c \in df.columns |->
              IF IsFirst(df.index, l) THEN NaN
              ELSE FSub(FDiv(df.cell[l][c], df.cell[PrevLabel(df.index, l)][c]), One)]])

\* DataFrame.shift(1): row l holds the row of the previous label; the first row is NaN.
FrameShift1(df) ==
    Frame(df.index, df.columns,
          [l \in df.index |-> [c \in df.columns |->
              IF IsFirst(df.index, l) THEN NaN
              ELSE df.cell[PrevLabel(df.index, l)][c]]])

\* a * b on DataFrames: both axes are aligned on the union of the labels; a
\* cell that either operand lacks is NaN.
FrameMul(a, b) ==
    LET idx  == a.index \cup b.index
        cols == a.columns \cup b.columns
    IN  Frame(idx, cols,
              [l \in idx |-> [c \in cols |->
                  IF /\ l \in a.index /\ c \in a.columns
                     /\ l \in b.index /\ c \in b.columns
                  THEN FMul(a.cell[l][c], b.cell[l][c])
                  ELSE NaN]])

\* DataFrame.sum(axis=1): one value per label, NaN cells skipped.
FrameSumAxis1(df) ==
    Series(df.index, [l \in df.index |-> NanSum(df.cell[l], df.columns)])

\* Series.ffill().fillna(0): a NaN takes the last value before it that is not
\* NaN, and 0 when there is none.
SeriesFfillFillna0(s) ==
    Series(s.index,
           [l \in s.index |->
               LET known == {k \in s.index : k <= l /\ ~IsNaN(s.val[k])}
               IN  IF known = {} THEN Zero ELSE s.val[SetMax(known)]])

\* (1 + s).cumprod(): the running product over the labels in ascending order.
RECURSIVE CumProd1p(_, _)
CumProd1p(s, l) ==
    IF IsFirst(s.index, l) THEN FAdd(One, s.val[l])
    ELSE FMul(CumProd1p(s, PrevLabel(s.index, l)), FAdd(One, s.val[l]))

----------------------------------------------------------------------------
(* PortfolioBacktester: the allocator, the return aggregation and the      *)
(* value reconstruction.                                                   *)

\* signals.loc[date] > 0 at one label: the set of active columns.
ActivePositions(signals, date) ==
    {c \in signals.columns : FLt(Zero, signals.cell[date][c])}

\* Mutant: the weight of an active position is 1 / (number of columns).
_calculate_weights_per_column(signals) ==
    Frame(signals.index, signals.columns,
          [date \in signals.index |->
              [c \in signals.columns |->
                  IF c \in ActivePositions(signals, date)
                  THEN Q(1, Cardinality(signals.columns)) ELSE Zero]])

\* Mutant: a position is active where the signal is >= 0.
_calculate_weights_nonneg(signals) ==
    Frame(signals.index, signals.columns,
          [date \in signals.index |->
              LET active == {c \in signals.columns : FLe(Zero, signals.cell[date][c])}
                  n      == Cardinality(active)
              IN  IF n > 0
                  THEN [c \in signals.columns |->
                            IF c \in active THEN Q(1, n) ELSE Zero]
                  ELSE [c \in signals.columns |-> Zero]])

_calculate_weights(signals) ==
    Frame(signals.index, signals.columns,
          [date \in signals.index |->
              LET active == ActivePositions(signals, date)
                  n      == Cardinality(active)
              IN  IF n > 0
                  THEN [c \in signals.columns |->
                            IF c \in active THEN Q(1, n) ELSE Zero]
                  ELSE [c \in signals.columns |-> Zero]])

\* Mutant: the weights are not shifted (the return at t uses the row of t).
_calculate_returns_unlagged(price_data, weights) ==
    SeriesFfillFillna0(FrameSumAxis1(FrameMul(weights, FramePctChange(price_data))))

\* Mutant: the asset return at t is taken forward, p[t+1] / p[t] - 1.
_calculate_returns_forward(price_data, weights) ==
    SeriesFfillFillna0(FrameSumAxis1(FrameMul(FrameShift1(weights),
        Frame(price_data.index, price_data.columns,
              [l \in price_data.index |-> [c \in price_data.columns |->
                  IF \A k \in price_data.index : k <= l THEN NaN
                  ELSE FSub(FDiv(price_data.cell[SetMin({k \in price_data.index : k > l})][c],
                                 price_data.cell[l][c]), One)]]))))

_calculate_returns(price_data, weights) ==
    LET asset_returns == FramePctChange(price_data)
        portfolio_returns ==
            FrameSumAxis1(FrameMul(FrameShift1(weights), asset_returns))
    IN  SeriesFfillFillna0(portfolio_returns)

\* Mutant: the returns are summed, not compounded.
RECURSIVE CumSum(_, _)
CumSum(s, l) ==
    IF IsFirst(s.index, l) THEN s.val[l]
    ELSE FAdd(CumSum(s, PrevLabel(s.index, l)), s.val[l])

_calculate_portfolio_values_cumsum(capital, rets) ==
    Series(rets.index,
           [l \in rets.index |->
               FMul(Q(capital, 1), FAdd(One, CumSum(rets, l)))])

_calculate_portfolio_values(capital, rets) ==
    Series(rets.index,
           [l \in rets.index |->
               FMul(Q(capital, 1), CumProd1p(rets, l))])

----------------------------------------------------------------------------
(* Statistics on a Series, as pandas and numpy compute them.               *)

\* The values of s that are not NaN, as a set of labels.
NotNaN(s) == {l \in s.index : ~IsNaN(s.val[l])}

MeanOver(f, D) ==
    IF D = {} THEN NaN ELSE FDiv(NanSum(f, D), Q(Cardinality(D), 1))

\* Series.mean(): NaN for a series with no value.
SeriesMean(s) == MeanOver(s.val, NotNaN(s))

FSquare(x) == FMul(x, x)

\* The sum of the squared deviations from m of f over D.
RECURSIVE SumSqDev(_, _, _)
SumSqDev(f, D, m) ==
    IF D = {} THEN Zero
    ELSE LET c == CHOOSE c \in D : TRUE
         IN  FAdd(FSquare(FSub(f[c], m)), SumSqDev(f, D \ {c}, m))

VarOver(f, D, m) ==
    IF Cardinality(D) < 2 THEN NaN
    ELSE FDiv(SumSqDev(f, D, m), Q(Cardinality(D) - 1, 1))

\* Series.var() with ddof = 1 (std() is its square root): NaN when fewer
\* than 2 values are present.
SeriesVar(s) == VarOver(s.val, NotNaN(s), SeriesMean(s))

\* Series.pct_change().fillna(0)
SeriesPctChangeFillna0(s) ==
    Series(s.index,
           [l \in s.index |->
               IF IsFirst(s.index, l) THEN Zero
               ELSE LET r == FSub(FDiv(s.val[l], s.val[PrevLabel(s.index, l)]), One)
                    IN  IF IsNaN(r) THEN Zero ELSE r])

\* s[s < 0]
SeriesNegative(s) ==
    LET keep == {l \in s.index : FLt(s.val[l], Zero)}
    IN  Series(keep, [l \in keep |-> s.val[l]])

\* The smallest and the largest of the values of f over the non-empty set D.
FMin(f, D) == f[CHOOSE l \in D : \A k \in D : FLe(f[l], f[k])]

FMax(f, D) == f[CHOOSE l \in D : \A k \in D : FLe(f[k], f[l])]

\* The values of s in ascending order (a sequence).
RECURSIVE SortedVals(_, _)
SortedVals(f, D) ==
    IF D = {} THEN <<>>
    ELSE LET l == CHOOSE l \in D : \A k \in D : FLe(f[l], f[k])
         IN  <<f[l]>> \o SortedVals(f, D \ {l})

\* np.percentile(s, pct), numpy's default linear interpolation between the
\* order statistics around position (n - 1) * pct / 100.
Percentile(s, pct) ==
    LET v   == SortedVals(s.val, s.index)
        n   == Len(v)
        lo  == ((n - 1) * pct) \div 100
        fr  == Q(((n - 1) * pct) % 100, 100)
    IN  IF lo + 1 >= n THEN v[lo + 1]
        ELSE FAdd(v[lo + 1], FMul(fr, FSub(v[lo + 2], v[lo + 1])))

----------------------------------------------------------------------------
(* Metric terms.  A metric is [op, x, y, z] over numbers:                  *)
(*   "num"       x                                                         *)
(*   "sqrt"      sqrt(x)                                                   *)
(*   "divsqrt"   x / sqrt(y)                                               *)
(*   "powm1"     x ^ y - 1                                                 *)
(*   "powm1div"  (x ^ y - 1) / z                                           *)
(* so that a square root or a fractional power stays exact.                *)

Num(x) == [op |-> "num", x |-> x, y |-> Zero, z |-> Zero]

SqrtOf(x) == [op |-> "sqrt", x |-> x, y |-> Zero, z |-> Zero]

DivSqrt(x, y) == [op |-> "divsqrt", x |-> x, y |-> y, z |-> Zero]

PowM1(x, y) == [op |-> "powm1", x |-> x, y |-> y, z |-> Zero]

PowM1Div(x, y, z) == [op |-> "powm1div", x |-> x, y |-> y, z |-> z]

\* x ^ y is NaN in float64: a NaN operand (1 ^ y and x ^ 0 are 1 all the
\* same), or a negative base with an exponent that is not an integer.
PowIsNaN(x, y) ==
    /\ x # One
    /\ y # Zero
    /\ \/ IsNaN(x)
       \/ IsNaN(y)
       \/ (FLt(x, Zero) /\ IsFinite(x) /\ IsFinite(y) /\ y[2] # 1)

\* x ^ y is finite, for x and y finite.
PowIsFinite(x, y) ==
    /\ ~PowIsNaN(x, y)
    /\ IsFinite(x)
    /\ IsFinite(y)
    /\ ~(x = Zero /\ FLt(y, Zero))

\* x ^ y is exactly 1.
PowIsOne(x, y) ==
    \/ x = One
    \/ y = Zero
    \/ (x = <<-1, 1>> /\ y[2] = 1 /\ y[1] % 2 = 0)

\* The metric is NaN.
MIsNaN(m) ==
    CASE m.op = "num"      -> IsNaN(m.x)
      [] m.op = "sqrt"     -> IsNaN(m.x) \/ FLt(m.x, Zero)
      [] m.op = "divsqrt"  -> \/ IsNaN(m.x) \/ IsNaN(m.y) \/ FLt(m.y, Zero)
                              \/ (m.x = Zero /\ m.y = Zero)
                              \/ (~IsFinite(m.x) /\ ~IsFinite(m.y))
      [] m.op = "powm1"    -> PowIsNaN(m.x, m.y)
      [] m.op = "powm1div" -> \/ PowIsNaN(m.x, m.y) \/ IsNaN(m.z)
                              \/ (PowIsOne(m.x, m.y) /\ m.z = Zero)
                              \/ (~PowIsFinite(m.x, m.y) /\ ~IsFinite(m.z))

\* The metric is a finite number (neither NaN nor infinite).
MIsDefined(m) ==
    /\ ~MIsNaN(m)
    /\ CASE m.op = "num"      -> IsFinite(m.x)
         [] m.op = "sqrt"     -> IsFinite(m.x)
         [] m.op = "divsqrt"  -> IsFinite(m.x) /\ m.y # Zero
         [] m.op = "powm1"    -> PowIsFinite(m.x, m.y)
         [] m.op = "powm1div" -> PowIsFinite(m.x, m.y) /\ m.z # Zero

\* The metric equals 0.
MIsZero(m) ==
    /\ ~MIsNaN(m)
    /\ CASE m.op = "num"      -> m.x = Zero
         [] m.op = "sqrt"     -> m.x = Zero
         [] m.op = "divsqrt"  -> (m.x = Zero /\ m.y # Zero) \/ (IsFinite(m.x) /\ ~IsFinite(m.y))
         [] m.op = "powm1"    -> PowIsOne(m.x, m.y)
         [] m.op = "powm1div" -> (PowIsOne(m.x, m.y) /\ m.z # Zero)
                                 \/ (PowIsFinite(m.x, m.y) /\ ~IsFinite(m.z))

----------------------------------------------------------------------------
(* PerformanceAnalyzer                                                     *)

\* 252 trading days per year.
TradingDays == 252

\* PerformanceAnalyzer().risk_free_rate, the default 0.02.
risk_free_rate == Q(1, 50)

\* mean * 252 / (std * sqrt(252)) with std = sqrt(variance), and 0.0 when
\* std == 0.
SharpeOf(mean, variance) ==
    IF variance = Zero THEN Num(Zero)
    ELSE DivSqrt(FMul(mean, Q(TradingDays, 1)), FMul(variance, Q(TradingDays, 1)))

_calculate_sharpe_ratio(excess_returns) ==
    SharpeOf(SeriesMean(excess_returns), SeriesVar(excess_returns))

\* The result of _calculate_sortino_ratio from the downside returns' count
\* and variance and the mean of all returns.
SortinoOf(n_downside, downside_variance, mean) ==
    IF n_downside = 0 THEN Num(Zero)
    ELSE IF FMul(downside_variance, Q(TradingDays, 1)) = Zero THEN Num(Zero)
    ELSE DivSqrt(FSub(FMul(mean, Q(TradingDays, 1)), risk_free_rate),
                 FMul(downside_variance, Q(TradingDays, 1)))

\* Mutant: no zero fallback for an empty downside.
_calculate_sortino_ratio_no_fallback(returns) ==
    DivSqrt(FSub(FMul(SeriesMean(returns), Q(TradingDays, 1)), risk_free_rate),
            FMul(SeriesVar(SeriesNegative(returns)), Q(TradingDays, 1)))

_calculate_sortino_ratio(returns) ==
    SortinoOf(Cardinality(SeriesNegative(returns).index),
              SeriesVar(SeriesNegative(returns)),
              SeriesMean(returns))

\* (value - running_max) / running_max at one label.
DrawdownOf(value, running_max) == FDiv(FSub(value, running_max), running_max)

\* Mutant: the drawdown is measured from the maximum of the whole series.
_calculate_max_drawdown_global(portfolio_values) ==
    LET idx == portfolio_values.index
        drawdown == [l \in idx |->
                        DrawdownOf(portfolio_values.val[l],
                                   FMax(portfolio_values.val, idx))]
    IN  FAbs(FMin(drawdown, idx))

_calculate_max_drawdown(portfolio_values) ==
    LET idx == portfolio_values.index
        drawdown == [l \in idx |->
                        DrawdownOf(portfolio_values.val[l],
                                   FMax(portfolio_values.val, {k \in idx : k <= l}))]
    IN  FAbs(FMin(drawdown, idx))

\* Mutant: no zero fallback, annualized_return / max_drawdown always.
_calculate_calmar_ratio_no_fallback(annualized_return, max_drawdown) ==
    PowM1Div(annualized_return.x, annualized_return.y, max_drawdown)

_calculate_calmar_ratio(annualized_return, max_drawdown) ==
    IF max_drawdown = Zero THEN Num(Zero)
    ELSE PowM1Div(annualized_return.x, annualized_return.y, max_drawdown)

_calculate_var(returns, pct) == FAbs(Percentile(returns, pct))

\* BacktestResults(**kwargs): the attributes of the object are exactly the
\* keyword arguments given.
BacktestResults(kwargs) == kwargs

\* The keys of BacktestResults.to_dict().
DictKeys ==
    {"final_value", "total_return", "annualized_return", "sharpe_ratio",
     "max_drawdown", "volatility", "sortino_ratio", "calmar_ratio", "var_95",
     "weights"}

\* The keys to_dict reads with getattr(self, key, 0.0).
DefaultedKeys == {"sortino_ratio", "calmar_ratio", "var_95"}

\* Mutant: the defaulted keys always come out as the 0.0 default.
to_dict_defaults(results) ==
    [k \in DictKeys |-> IF k \in DefaultedKeys THEN Num(Zero) ELSE results[k]]

\* BacktestResults.to_dict(): each key is the attribute of that name, the
\* 0.0 default standing in for a defaulted key the object does not have.
to_dict(results) ==
    [k \in DictKeys |->
        IF k \in DefaultedKeys /\ k \notin DOMAIN results THEN Num(Zero)
        ELSE results[k]]

\* What a call comes to: a returned record, or an exception raised.
Returned(rec) == [status |-> "returned", error |-> "", rec |-> <<rec>>]

Raised(err) == [status |-> "raised", error |-> err, rec |-> <<>>]

\* returns - self.risk_free_rate / 252
ExcessReturns(returns) ==
    Series(returns.index,
           [l \in returns.index |->
               FSub(returns.val[l], FDiv(risk_free_rate, Q(TradingDays, 1)))])

\* calculate_metrics from "Calculate annualized metrics" on.
MetricsOf(weights, final_value, total_return, returns, annualized_return, max_drawdown) ==
    BacktestResults(
        [final_value       |-> Num(final_value),
         total_return      |-> Num(total_return),
         annualized_return |-> annualized_return,
         sharpe_ratio      |-> _calculate_sharpe_ratio(ExcessReturns(returns)),
         sortino_ratio     |-> _calculate_sortino_ratio(returns),
         max_drawdown      |-> Num(max_drawdown),
         volatility        |-> SqrtOf(FMul(SeriesVar(returns), Q(TradingDays, 1))),
         calmar_ratio      |-> _calculate_calmar_ratio(annualized_return, max_drawdown),
         var_95            |-> Num(_calculate_var(returns, 5)),
         weights           |-> weights.cell[SetMax(weights.index)]])

\* (1 + total_return) ** (1 / years) - 1 with years = days / 252
AnnualizedReturn(total_return, days) ==
    PowM1(FAdd(One, total_return), Q(TradingDays, days))

TotalReturn(final_value, initial_capital) ==
    FDiv(FSub(final_value, Q(initial_capital, 1)), Q(initial_capital, 1))

MetricsFrom(portfolio_values, weights, final_value, total_return) ==
    MetricsOf(weights, final_value, total_return,
              SeriesPctChangeFillna0(portfolio_values),
              AnnualizedReturn(total_return, Cardinality(portfolio_values.index)),
              _calculate_max_drawdown(portfolio_values))

\* calculate_metrics up to the record, for a non-empty value series and a
\* non-empty weight matrix.
MetricsRecord(portfolio_values, weights, initial_capital) ==
    MetricsFrom(portfolio_values, weights,
                portfolio_values.val[SetMax(portfolio_values.index)],
                TotalReturn(portfolio_values.val[SetMax(portfolio_values.index)],
                            initial_capital))

\* portfolio_values.iloc[-1] and weights.iloc[-1] raise IndexError on an
\* empty object; nothing else in calculate_metrics raises.
calculate_metrics(portfolio_values, weights, initial_capital) ==
    IF portfolio_values.index = {} THEN Raised("IndexError")
    ELSE IF weights.index = {} THEN Raised("IndexError")
    ELSE Returned(MetricsRecord(portfolio_values, weights, initial_capital))

----------------------------------------------------------------------------
(* Bounds and input domains.                                               *)

\* The longest price history a download delivers (number of time points).
MaxT == 3

\* self.symbols of the instance.
Symbols == {"AAPL", "MSFT"}

\* A symbol that is not among self.symbols.
OtherSymbol == "TSLA"

\* Prices a download may deliver (positive).
PriceVals == {1, 2}

\* initial_capital values given to the constructor.
Capitals == {100, 100000}

IntFrame(idx, cols, f) ==
    Frame(idx, cols, [l \in idx |-> [c \in cols |-> Q(f[l][c], 1)]])

\* Every frame over the given labels and columns with cells from vals.
Frames(idx, cols, vals) ==
    {IntFrame(idx, cols, f) : f \in [idx -> [cols -> vals]]}

ConstFrame(idx, cols, v) == Frame(idx, cols, [l \in idx |-> [c \in cols |-> v]])

\* What yf.download can deliver for self.symbols: T trading days, 0 <= T <= MaxT.
DownloadResults == UNION {Frames(1..T, Symbols, PriceVals) : T \in 0..MaxT}

\* DataFrame.ffill(): a NaN cell takes the last value above it that is not NaN.
FrameFfill(df) ==
    Frame(df.index, df.columns,
          [l \in df.index |-> [c \in df.columns |->
              LET known == {k \in df.index : k <= l /\ ~IsNaN(df.cell[k][c])}
              IN  IF known = {} THEN NaN ELSE df.cell[SetMax(known)][c]]])

\* The sample prices: one row per calendar day of the date range, drawn
\* from a generator seeded with 42, hence the same on every call.  The model
\* takes MaxT days and fixed positive prices in place of the drawn ones.
_generate_sample_data ==
    Frame(1..MaxT, Symbols,
          [l \in 1..MaxT |-> [c \in Symbols |->
              IF c = "AAPL" THEN Q(2 + l, 1) ELSE Q(8 - l, 1)]])

---------------------------------------------------------------------------------------------------------------------------------------------------
(* Strategies: BuyAndHoldStrategy, and implementations of                  *)
(* BaseStrategy.generate_signals that a caller may pass to run.  Each is a *)
(* function of the price matrix it is given.                               *)

\* Mutant: buy only where the price is above 1.
BuyAndHold_generate_signals_priced(d) ==
    Frame(d.index, d.columns,
          [l \in d.index |-> [c \in d.columns |->
              IF FLt(One, d.cell[l][c]) THEN One ELSE Zero]])

\* BuyAndHoldStrategy.generate_signals
BuyAndHold_generate_signals(d) == ConstFrame(d.index, d.columns, One)

\* 1 where the price rose since the previous time point, -1 where it fell,
\* 0 otherwise and at the first time point.
Momentum_generate_signals(d) ==
    Frame(d.index, d.columns,
          [l \in d.index |-> [c \in d.columns |->
              IF IsFirst(d.index, l) THEN Zero
              ELSE IF FLt(d.cell[PrevLabel(d.index, l)][c], d.cell[l][c]) THEN One
              ELSE IF FLt(d.cell[l][c], d.cell[PrevLabel(d.index, l)][c]) THEN <<-1, 1>>
              ELSE Zero]])

\* AAPL alone at the odd time points, the other symbols at the even ones.
Rotate_generate_signals(d) ==
    Frame(d.index, d.columns,
          [l \in d.index |-> [c \in d.columns |->
              IF (l % 2 = 1) <=> (c = "AAPL") THEN One ELSE Zero]])

\* Strategies that break the contract: all-ones signals on a shape that is
\* not the shape of the price matrix (the last row missing, one row too many,
\* a column missing, a column too many).
ShortHistory_generate_signals(d) ==
    ConstFrame(d.index \ {Cardinality(d.index)}, d.columns, One)

ExtraDay_generate_signals(d) ==
    ConstFrame(d.index \cup {Cardinality(d.index) + 1}, d.columns, One)

OneColumn_generate_signals(d) == ConstFrame(d.index, d.columns \ {"MSFT"}, One)

ExtraColumn_generate_signals(d) ==
    ConstFrame(d.index, d.columns \cup {OtherSymbol}, One)

Strategies ==
    {"BuyAndHold", "Momentum", "Rotate", "ShortHistory", "ExtraDay",
     "OneColumn", "ExtraColumn"}

\* strategy.generate_signals(d) for the strategy named st.
generate_signals(st, d) ==
    CASE st = "BuyAndHold"   -> BuyAndHold_generate_signals(d)
      [] st = "Momentum"     -> Momentum_generate_signals(d)
      [] st = "Rotate"       -> Rotate_generate_signals(d)
      [] st = "ShortHistory" -> ShortHistory_generate_signals(d)
      [] st = "ExtraDay"     -> ExtraDay_generate_signals(d)
      [] st = "OneColumn"    -> OneColumn_generate_signals(d)
      [] st = "ExtraColumn"  -> ExtraColumn_generate_signals(d)

\* The signal (or weight) matrix has the index and the columns of d.
Aligned(sig, d) == sig.index = d.index /\ sig.columns = d.columns

----------------------------------------------------------------------------
(* The state.                                                              *)

VARIABLES
    data,               \* self.data: <<>> for None, <<frame>> once fetched
    initial_capital,    \* self.initial_capital
    portfolio_values,   \* self.portfolio_values: <<>> for None, else <<series>>
    weights_history,    \* self.weights_history: <<>> for None, else <<frame>>
    fetch_calls,        \* how many times fetch_data has been called
    synthetic,          \* self.data came from _generate_sample_data
    strategy,           \* the strategy of the last run, "none" before any
    signals,            \* the signals it returned, <<>> before any run
    returns,            \* the return series of the last run, <<>> before any
    outcome,            \* what the last run came to
    again,              \* the last run repeated the strategy of the run before
    first_outcome,      \* what the first of these runs of one strategy came to
    pc,                 \* a direct call of one function: "call", "done"; else "idle"
    arg,                \* its argument
    out                 \* its result, <<>> before the call

vars == <<data, initial_capital, portfolio_values, weights_history, fetch_calls,
          synthetic, strategy, signals, returns, outcome, again, first_outcome,
          pc, arg, out>>

NoCall == [status |-> "none", error |-> "", rec |-> <<>>]

\* PortfolioBacktester.__init__
NewBacktester ==
    /\ data = <<>>
    /\ portfolio_values = <<>>
    /\ weights_history = <<>>
    /\ fetch_calls = 0
    /\ synthetic = FALSE
    /\ strategy = "none"
    /\ signals = <<>>
    /\ returns = <<>>
    /\ outcome = NoCall
    /\ again = FALSE
    /\ first_outcome = NoCall

Init ==
    /\ NewBacktester
    /\ initial_capital \in Capitals
    /\ pc = "idle"
    /\ arg = <<>>
    /\ out = <<>>

\* Mutant: run carries the final portfolio value over as the capital of the
\* next run.
RunStore_compounding(d, st, sig, weights, rets, pv, res) ==
    /\ data' = <<d>>
    /\ strategy' = st
    /\ signals' = <<sig>>
    /\ returns' = <<rets>>
    /\ portfolio_values' = <<pv>>
    /\ weights_history' = <<weights>>
    /\ outcome' = res
    /\ again' = (strategy = st)
    /\ first_outcome' = IF strategy = st THEN first_outcome ELSE res
    /\ initial_capital' = IF pv.index = {} THEN initial_capital
                          ELSE pv.val[SetMax(pv.index)][1] \div pv.val[SetMax(pv.index)][2]
    /\ UNCHANGED <<pc, arg, out>>

\* The end of run: the results are stored and the record is returned (or the
\* exception of calculate_metrics propagates, after the two attributes are set).
RunStore(d, st, sig, weights, rets, pv, res) ==
    /\ data' = <<d>>
    /\ strategy' = st
    /\ signals' = <<sig>>
    /\ returns' = <<rets>>
    /\ portfolio_values' = <<pv>>
    /\ weights_history' = <<weights>>
    /\ outcome' = res
    /\ again' = (strategy = st)
    /\ first_outcome' = IF strategy = st THEN first_outcome ELSE res
    /\ UNCHANGED <<initial_capital, pc, arg, out>>

RunValues(d, st, sig, weights, rets, pv) ==
    RunStore(d, st, sig, weights, rets, pv,
             calculate_metrics(pv, weights, initial_capital))

RunReturns(d, st, sig, weights, rets) ==
    RunValues(d, st, sig, weights, rets,
              _calculate_portfolio_values(initial_capital, rets))

RunWeights(d, st, sig, weights) ==
    RunReturns(d, st, sig, weights, _calculate_returns(d, weights))

RunSignals(d, st, sig) == RunWeights(d, st, sig, _calculate_weights(sig))

\* run from "Generate signals from strategy" on, with self.data = d.
RunOn(d, st) == RunSignals(d, st, generate_signals(st, d))

\* run, self.data is None, the download succeeds.
RunFetched ==
    /\ pc = "idle"
    /\ data = <<>>
    /\ \E raw \in DownloadResults, st \in Strategies :
         /\ RunOn(FrameFfill(raw), st)
         /\ fetch_calls' = fetch_calls + 1
         /\ synthetic' = FALSE

\* run, self.data is None, the download raises: fetch_data returns the
\* sample data.
RunFetchFailed ==
    /\ pc = "idle"
    /\ data = <<>>
    /\ \E st \in Strategies :
         /\ RunOn(_generate_sample_data, st)
         /\ fetch_calls' = fetch_calls + 1
         /\ synthetic' = TRUE

\* Mutant: run downloads again although self.data is set.
RunCached_refetch ==
    /\ pc = "idle"
    /\ data # <<>>
    /\ fetch_calls < 2
    /\ \E raw \in DownloadResults, st \in Strategies :
         /\ RunOn(FrameFfill(raw), st)
         /\ fetch_calls' = fetch_calls + 1
         /\ synthetic' = FALSE

\* run, self.data is set already.
RunCached ==
    /\ pc = "idle"
    /\ data # <<>>
    /\ \E st \in Strategies :
         /\ RunOn(data[1], st)
         /\ UNCHANGED <<fetch_calls, synthetic>>

Next == RunFetched \/ RunFetchFailed \/ RunCached

Spec == Init /\ [][Next]_vars

----------------------------------------------------------------------------
(* Direct calls of one function, on inputs drawn from bounded sets.        *)

\* The most rows of a signal matrix handed to _calculate_weights directly.
MaxAllocRows == 2

\* The longest value series handed to calculate_metrics directly.
MaxLen == 4

\* Signals of the directly called allocator: sell, hold, and a positive
\* magnitude other than 1.
AllocSigVals == {-1, 0, 2}

AllocSymbols == Symbols \cup {OtherSymbol}

\* Portfolio values of the directly called analyzer.
ValueVals == {50, 100, 200}

\* PortfolioBacktester(...) with the default initial_capital.
DefaultBacktester ==
    /\ NewBacktester
    /\ initial_capital = 100000

InitAlloc ==
    /\ DefaultBacktester
    /\ pc = "call"
    /\ \E T \in 1..MaxAllocRows :
         arg \in {[signals |-> sig] : sig \in Frames(1..T, AllocSymbols, AllocSigVals)}
    /\ out = <<>>

\* backtester._calculate_weights(signals)
AllocCall ==
    /\ pc = "call"
    /\ "signals" \in DOMAIN arg
    /\ out' = <<_calculate_weights(arg.signals)>>
    /\ pc' = "done"
    /\ UNCHANGED <<data, initial_capital, portfolio_values, weights_history,
                   fetch_calls, synthetic, strategy, signals, returns, outcome,
                   again, first_outcome, arg>>

SpecAlloc == InitAlloc /\ [][AllocCall]_vars

\* The weight matrix handed to calculate_metrics directly: equal weights at
\* the odd time points, all in the first symbol at the even ones.
SampleWeights(idx) ==
    Frame(idx, Symbols,
          [l \in idx |->
              IF l % 2 = 1 THEN [c \in Symbols |-> Q(1, 2)]
              ELSE [c \in Symbols |-> IF c = "AAPL" THEN One ELSE Zero]])

InitMetrics ==
    /\ DefaultBacktester
    /\ pc = "call"
    /\ \E n \in 0..MaxLen, cap \in Capitals :
         arg \in {[portfolio_values |-> Series(1..n, [l \in 1..n |-> Q(v[l], 1)]),
                   weights |-> SampleWeights(1..n),
                   initial_capital |-> cap] : v \in [1..n -> ValueVals]}
    /\ out = <<>>

\* PerformanceAnalyzer().calculate_metrics(portfolio_values, weights, initial_capital)
MetricsCall ==
    /\ pc = "call"
    /\ "portfolio_values" \in DOMAIN arg
    /\ out' = <<calculate_metrics(arg.portfolio_values, arg.weights,
                                  arg.initial_capital)>>
    /\ pc' = "done"
    /\ UNCHANGED <<data, initial_capital, portfolio_values, weights_history,
                   fetch_calls, synthetic, strategy, signals, returns, outcome,
                   again, first_outcome, arg>>

\* results.to_dict() on the record the call returned.
ToDictCall ==
    /\ pc = "done"
    /\ "portfolio_values" \in DOMAIN arg
    /\ out[1].status = "returned"
    /\ out' = <<out[1], to_dict(out[1].rec[1])>>
    /\ pc' = "dict"
    /\ UNCHANGED <<data, initial_capital, portfolio_values, weights_history,
                   fetch_calls, synthetic, strategy, signals, returns, outcome,
                   again, first_outcome, arg>>

SpecMetrics == InitMetrics /\ [][MetricsCall \/ ToDictCall]_vars

----------------------------------------------------------------------------
(* Claims.                                                                 *)

\* The plain sum and product of f over D.
RECURSIVE FSum(_, _)
FSum(f, D) ==
    IF D = {} THEN Zero
    ELSE LET c == CHOOSE c \in D : TRUE IN FAdd(f[c], FSum(f, D \ {c}))

RECURSIVE FProd(_, _)
FProd(f, D) ==
    IF D = {} THEN One
    ELSE LET c == CHOOSE c \in D : TRUE IN FMul(f[c], FProd(f, D \ {c}))

RowSum(df, l) == FSum(df.cell[l], df.columns)

\* C1: every row of the weight matrix the default allocator produces sums
\* to exactly 0 or exactly 1, and every weight lies in [0, 1], whatever the
\* signals are (all-zero rows and negative signals included).
C1_RowsSumToZeroOrOne ==
    pc = "done" /\ "signals" \in DOMAIN arg =>
        \A l \in out[1].index :
            /\ RowSum(out[1], l) \in {Zero, One}
            /\ \A c \in out[1].columns :
                   FLe(Zero, out[1].cell[l][c]) /\ FLe(out[1].cell[l][c], One)

\* C1 witness: one weight matrix with a row of sum 0 and a row of sum 1 in
\* which one signal is negative and two are positive.
C1_Witness ==
    /\ pc = "done"
    /\ "signals" \in DOMAIN arg
    /\ \E l \in out[1].index : RowSum(out[1], l) = Zero
    /\ \E l \in out[1].index :
          /\ RowSum(out[1], l) = One
          /\ \E c \in arg.signals.columns : FLt(arg.signals.cell[l][c], Zero)
          /\ Cardinality({c \in arg.signals.columns :
                              FLt(Zero, arg.signals.cell[l][c])}) = 2

\* C9: the allocator maps each signal row on its own: with A the assets whose
\* signal is > 0 at that time point, an asset of A gets 1/|A| and every other
\* asset (signal 0 or negative) gets 0; all weights are 0 when A is empty;
\* the weight matrix has the shape of the signal matrix.
C9_EqualWeightOnActive ==
    pc = "done" /\ "signals" \in DOMAIN arg =>
        /\ out[1].index = arg.signals.index
        /\ out[1].columns = arg.signals.columns
        /\ \A l \in arg.signals.index :
             LET A == {a \in arg.signals.columns : arg.signals.cell[l][a][1] > 0}
             IN  \A c \in arg.signals.columns :
                    out[1].cell[l][c] =
                        IF c \in A THEN <<1, Cardinality(A)>> ELSE <<0, 1>>

\* C9 witness: a row with a zero, a negative and one positive signal (the
\* positive one gets everything) beside a row with no positive signal.
C9_Witness ==
    /\ pc = "done"
    /\ "signals" \in DOMAIN arg
    /\ \E l \in arg.signals.index :
          /\ \E c \in arg.signals.columns : arg.signals.cell[l][c] = Zero
          /\ \E c \in arg.signals.columns : FLt(arg.signals.cell[l][c], Zero)
          /\ \E c \in arg.signals.columns :
                FLt(Zero, arg.signals.cell[l][c]) /\ out[1].cell[l][c] = One
    /\ \E l \in arg.signals.index :
          /\ \A c \in arg.signals.columns : ~FLt(Zero, arg.signals.cell[l][c])
          /\ \A c \in arg.signals.columns : out[1].cell[l][c] = Zero

\* A run has happened and its signals had the shape of the price matrix.
AlignedRun == strategy # "none" /\ Aligned(signals[1], data[1])

\* sum over the assets of w[k][a] * (p[l][a] / p[k][a] - 1)
WeightedReturn(d, w, k, l) ==
    FSum([c \in d.columns |->
             FMul(w.cell[k][c], FSub(FDiv(d.cell[l][c], d.cell[k][c]), One))],
         d.columns)

\* C2: one-period weight lag.  After a run whose weights have the shape of
\* the price matrix, the return at the first time point is 0 and the return
\* at every later time point t is the sum over the assets of
\* weight[t-1][a] * (price[t][a] / price[t-1][a] - 1): the weight row of
\* t-1, not of t.
C2_LaggedReturns ==
    AlignedRun =>
        /\ returns[1].index = data[1].index
        /\ \A l \in data[1].index :
             returns[1].val[l] =
                 IF IsFirst(data[1].index, l) THEN Zero
                 ELSE WeightedReturn(data[1], weights_history[1],
                                     PrevLabel(data[1].index, l), l)

\* C2 witness: a run in which the lag matters: at some time point the weight
\* row of t would have given another return than the row of t-1 did.
C2_Witness ==
    /\ AlignedRun
    /\ \E l \in data[1].index :
          /\ ~IsFirst(data[1].index, l)
          /\ returns[1].val[l] # Zero
          /\ returns[1].val[l] #
                 FSum([c \in data[1].columns |->
                          FMul(weights_history[1].cell[l][c],
                               FSub(FDiv(data[1].cell[l][c],
                                         data[1].cell[PrevLabel(data[1].index, l)][c]),
                                    One))],
                      data[1].columns)

\* The first run of a new backtester alone: self.data is None, so run
\* fetches.  (A later run on the same instance computes from the same
\* self.data and comes to states Spec reaches by a first run too.)
FirstRun == RunFetched \/ RunFetchFailed

SpecFirstRun == Init /\ [][FirstRun]_vars

\* The labels of idx up to t, and those after t.
UpTo(idx, t) == {l \in idx : l <= t}

After(idx, t) == {l \in idx : l > t}

\* Two frames (two series) agree at every time point up to t.
FramesAgreeUpTo(a, b, t) ==
    /\ a.columns = b.columns
    /\ UpTo(a.index, t) = UpTo(b.index, t)
    /\ \A l \in UpTo(a.index, t) : a.cell[l] = b.cell[l]

SeriesAgreeUpTo(a, b, t) ==
    /\ UpTo(a.index, t) = UpTo(b.index, t)
    /\ \A l \in UpTo(a.index, t) : a.val[l] = b.val[l]

\* The price matrix d with the prices after time point t replaced by tail.
WithTail(d, t, tail) ==
    Frame(d.index, d.columns,
          [l \in d.index |->
              IF l > t THEN [c \in d.columns |-> Q(tail[l][c], 1)] ELSE d.cell[l]])

\* The price matrices that agree with d up to t and differ after t only.
Perturbed(d, t) ==
    {WithTail(d, t, tail) :
        tail \in [After(d.index, t) -> [d.columns -> PriceVals]]}

\* The other run's values, returns and weights agree with this run's up to t.
SameValuesUpTo(t, v2) == SeriesAgreeUpTo(portfolio_values[1], v2, t)

SameReturnsUpTo(t, r2) ==
    /\ SeriesAgreeUpTo(returns[1], r2, t)
    /\ SameValuesUpTo(t, _calculate_portfolio_values(initial_capital, r2))

SameWeightsUpTo(t, p2, w2) ==
    /\ FramesAgreeUpTo(weights_history[1], w2, t)
    /\ SameReturnsUpTo(t, _calculate_returns(p2, w2))

\* The run of the same strategy on the price matrix p2: where its signals
\* agree with this run's up to t, so do its weights, returns and values.
NoLookahead(t, p2, s2) ==
    FramesAgreeUpTo(signals[1], s2, t) =>
        SameWeightsUpTo(t, p2, _calculate_weights(s2))

NoLookaheadOn(t, p2) == NoLookahead(t, p2, generate_signals(strategy, p2))

\* C3: zero-lookahead.  Take the run that happened and any other run whose
\* price matrix agrees with it at every time point <= t and differs only
\* after t, with signals that agree up to t: the weight rows, the returns and
\* the values at every time point <= t are the same in both runs.  Checked
\* under SpecFirstRun.
C3_ZeroLookahead ==
    strategy # "none" =>
        \A t \in data[1].index :
            \A p2 \in Perturbed(data[1], t) : NoLookaheadOn(t, p2)

\* C3 witness: a run and a price matrix changed after t only whose signals
\* agree up to t and whose return right after t is another one.
C3_Witness ==
    /\ strategy # "none"
    /\ \E t \in data[1].index :
          \E p2 \in Perturbed(data[1], t) :
              LET s2 == generate_signals(strategy, p2)
                  r2 == _calculate_returns(p2, _calculate_weights(s2))
              IN  /\ FramesAgreeUpTo(signals[1], s2, t)
                  /\ \E u \in After(returns[1].index, t) :
                        /\ u \in r2.index
                        /\ r2.val[u] # returns[1].val[u]

\* C4: after every run, the value at each time point t is
\* initial_capital * product over k <= t of (1 + returns[k]), and the value
\* at the first time point is initial_capital exactly.
C4_ValuesCompound ==
    strategy # "none" =>
        /\ portfolio_values[1].index = returns[1].index
        /\ \A l \in returns[1].index :
             /\ portfolio_values[1].val[l] =
                    FMul(<<initial_capital, 1>>,
                         FProd([k \in returns[1].index |->
                                   FAdd(One, returns[1].val[k])],
                               {k \in returns[1].index : k <= l}))
             /\ IsFirst(returns[1].index, l) =>
                    portfolio_values[1].val[l] = <<initial_capital, 1>>

\* C4 witness: a run with two non-zero returns, ending away from the
\* initial capital.
C4_Witness ==
    /\ strategy # "none"
    /\ Cardinality({l \in returns[1].index : returns[1].val[l] # Zero}) >= 2
    /\ \E l \in portfolio_values[1].index :
          /\ \A k \in portfolio_values[1].index : k <= l
          /\ portfolio_values[1].val[l] # <<initial_capital, 1>>

\* C5: calculate_metrics on a value series of fewer than 2 time points
\* raises an error and returns no record.
C5_ShortSeriesRaises ==
    (/\ pc = "done"
     /\ "portfolio_values" \in DOMAIN arg
     /\ Cardinality(arg.portfolio_values.index) < 2)
        => out[1].status = "raised"

\* C6: when the signals the strategy returned do not have the index and the
\* columns of the price matrix, run raises and returns no record.
C6_MisalignedRaises ==
    (strategy # "none" /\ ~Aligned(signals[1], data[1]))
        => outcome.status = "raised"

\* C7: a record returned by run was computed from prices the data source
\* delivered, never from sample data the backtester substituted itself.
C7_NoSampleDataFallback ==
    outcome.status = "returned" => ~synthetic

\* C8: idempotence.  A run that repeats the strategy of the run before it on
\* the same instance (same price matrix, same signals, same initial capital)
\* comes to the very result of the first of these runs, field by field.
C8_RerunSameResult ==
    again => /\ outcome.status = first_outcome.status
             /\ outcome.error = first_outcome.error
             /\ outcome.rec = first_outcome.rec

\* C8 witness: a run repeated on one instance that returned a record with a
\* non-zero total return.
C8_Witness ==
    /\ again
    /\ outcome.status = "returned"
    /\ outcome.rec[1].total_return.x # Zero

\* No price of d ever changes.
ConstantPrices(d) ==
    \A l \in d.index, k \in d.index, c \in d.columns : d.cell[l][c] = d.cell[k][c]

\* C10: the record run returns for buy-and-hold on a price matrix in which
\* no price ever changes has total_return, volatility, sharpe_ratio and
\* max_drawdown equal to 0.
C10_ConstantPricesAllZero ==
    (/\ strategy = "BuyAndHold"
     /\ ConstantPrices(data[1])
     /\ outcome.status = "returned")
        => /\ MIsZero(outcome.rec[1].total_return)
           /\ MIsZero(outcome.rec[1].volatility)
           /\ MIsZero(outcome.rec[1].sharpe_ratio)
           /\ MIsZero(outcome.rec[1].max_drawdown)

\* The call of calculate_metrics has returned a record.
MetricsReturned ==
    /\ pc = "done"
    /\ "portfolio_values" \in DOMAIN arg
    /\ out[1].status = "returned"

\* The fall from the running maximum at label l, as a fraction of it.
FallAt(s, l) ==
    LET peak == FMax(s.val, {k \in s.index : k <= l})
    IN  FDiv(FSub(peak, s.val[l]), peak)

\* The series starts at its peak, falls to half of it and no lower, and
\* ends at the peak again.
HalvesAndRecovers(s) ==
    \E first \in s.index, last \in s.index :
        /\ \A k \in s.index : first <= k /\ k <= last
        /\ \A k \in s.index : FLe(s.val[k], s.val[first])
        /\ s.val[last] = s.val[first]
        /\ \E k \in s.index : s.val[k] = FDiv(s.val[first], Q(2, 1))
        /\ \A k \in s.index : FLe(FDiv(s.val[first], Q(2, 1)), s.val[k])

\* C11: the max_drawdown of the record calculate_metrics returns is the
\* largest fall (runningMax[t] - values[t]) / runningMax[t] over all time
\* points t, it is not negative, and for a series that falls to half of its
\* peak and recovers to the peak exactly it is 1/2, with total_return 0 when
\* the series started from the initial capital.
C11_MaxDrawdown ==
    MetricsReturned =>
        LET s   == arg.portfolio_values
            mdd == out[1].rec[1].max_drawdown
        IN  /\ mdd.op = "num"
            /\ FLe(Zero, mdd.x)
            /\ \E l \in s.index : mdd.x = FallAt(s, l)
            /\ \A l \in s.index : FLe(FallAt(s, l), mdd.x)
            /\ HalvesAndRecovers(s) =>
                  /\ mdd.x = Q(1, 2)
                  /\ s.val[SetMin(s.index)] = Q(arg.initial_capital, 1)
                        => out[1].rec[1].total_return = Num(Zero)

\* C11 witness: a record for a series that rises, halves from the peak and
\* recovers, started from the initial capital.
C11_Witness ==
    /\ MetricsReturned
    /\ HalvesAndRecovers(arg.portfolio_values)
    /\ Cardinality(arg.portfolio_values.index) >= 3
    /\ arg.portfolio_values.val[1] = Q(arg.initial_capital, 1)
    /\ out[1].rec[1].max_drawdown = Num(Q(1, 2))
    /\ out[1].rec[1].total_return = Num(Zero)

\* No value of the series is below its predecessor.
NeverFalls(s) ==
    \A l \in s.index :
        IsFirst(s.index, l) \/ FLe(s.val[PrevLabel(s.index, l)], s.val[l])

\* Some value of the series is above its predecessor.
SomeRise(s) ==
    \E l \in s.index :
        ~IsFirst(s.index, l) /\ FLt(s.val[PrevLabel(s.index, l)], s.val[l])

\* C12: when no period return is negative (every value is at least its
\* predecessor), calculate_metrics returns a record, raising nothing, whose
\* sortino_ratio is exactly 0, whatever the mean return is.
C12_SortinoZeroNoDownside ==
    (/\ pc = "done"
     /\ "portfolio_values" \in DOMAIN arg
     /\ arg.portfolio_values.index # {}
     /\ NeverFalls(arg.portfolio_values))
        => /\ out[1].status = "returned"
           /\ out[1].rec[1].sortino_ratio = Num(Zero)

\* C12 witness: a record with sortino_ratio 0 for a series that never falls
\* and whose mean return is above the risk-free rate.
C12_Witness ==
    /\ MetricsReturned
    /\ NeverFalls(arg.portfolio_values)
    /\ SomeRise(arg.portfolio_values)
    /\ out[1].rec[1].sortino_ratio = Num(Zero)
    /\ ~MIsZero(out[1].rec[1].sharpe_ratio)

\* C13: for a value series that never falls below an earlier value,
\* calculate_metrics returns max_drawdown = 0 and calmar_ratio = 0 (the zero
\* fallback, not annualized_return / 0).
C13_CalmarZeroNoDrawdown ==
    (MetricsReturned /\ NeverFalls(arg.portfolio_values))
        => /\ out[1].rec[1].max_drawdown = Num(Zero)
           /\ out[1].rec[1].calmar_ratio = Num(Zero)

\* C13 witness: a record for a rising series with an annualized return
\* that is not 0, and max_drawdown and calmar_ratio 0.
C13_Witness ==
    /\ MetricsReturned
    /\ NeverFalls(arg.portfolio_values)
    /\ SomeRise(arg.portfolio_values)
    /\ ~MIsZero(out[1].rec[1].annualized_return)
    /\ out[1].rec[1].calmar_ratio = Num(Zero)

\* The numeric fields of a results record.
MetricFields ==
    {"final_value", "total_return", "annualized_return", "sharpe_ratio",
     "sortino_ratio", "max_drawdown", "volatility", "calmar_ratio", "var_95"}

\* C17: for a value series of at least 2 strictly positive values, every
\* metric of the record calculate_metrics returns is a defined number,
\* neither NaN nor infinite.
C17_AllMetricsDefined ==
    (/\ MetricsReturned
     /\ Cardinality(arg.portfolio_values.index) >= 2
     /\ \A l \in arg.portfolio_values.index :
            FLt(Zero, arg.portfolio_values.val[l]))
        => \A f \in MetricFields : MIsDefined(out[1].rec[1][f])

\* C14: the record calculate_metrics returns carries exactly the ten
\* fields, to_dict maps each of the ten keys to the field's value, its
\* total_return is (values[-1] - initial_capital) / initial_capital and its
\* weights are the last row of the weight matrix.
C14_RecordAndDict ==
    pc = "dict" =>
        LET rec == out[1].rec[1]
            s   == arg.portfolio_values
            fin == s.val[SetMax(s.index)]
            cap == Q(arg.initial_capital, 1)
        IN  /\ DOMAIN rec = DictKeys
            /\ DOMAIN out[2] = DictKeys
            /\ \A k \in DictKeys : out[2][k] = rec[k]
            /\ rec.final_value = Num(fin)
            /\ rec.total_return = Num(FDiv(FSub(fin, cap), cap))
            /\ rec.weights = arg.weights.cell[SetMax(arg.weights.index)]

\* C14 witness: to_dict of a record whose defaulted fields are defined and
\* not 0, whose total_return is not 0 and whose weights are those of a last
\* row that differs from the first.
C14_Witness ==
    /\ pc = "dict"
    /\ \A k \in DefaultedKeys : MIsDefined(out[2][k]) /\ ~MIsZero(out[2][k])
    /\ ~MIsZero(out[2].total_return)
    /\ out[2].weights # arg.weights.cell[1]

\* C15: the signals of BuyAndHoldStrategy have the index and the columns of
\* the price matrix and every cell is 1, whatever the prices are.
C15_BuyAndHoldAllOnes ==
    strategy = "BuyAndHold" =>
        /\ signals[1].index = data[1].index
        /\ signals[1].columns = data[1].columns
        /\ \A l \in signals[1].index, c \in signals[1].columns :
               signals[1].cell[l][c] = One

\* C15 witness: buy-and-hold signals on a price matrix of several time
\* points whose prices differ.
C15_Witness ==
    /\ strategy = "BuyAndHold"
    /\ Cardinality(data[1].index) >= 2
    /\ ~ConstantPrices(data[1])
    /\ \A l \in data[1].index, c \in data[1].columns : signals[1].cell[l][c] = One

\* The values and weights run stores for strategy st on the price matrix d
\* with capital cap.
WeightsOfRun(st, d) == _calculate_weights(generate_signals(st, d))

ValuesOfRun(st, d, cap) ==
    _calculate_portfolio_values(cap, _calculate_returns(d, WeightsOfRun(st, d)))

\* C16: over any sequence of runs on one instance, fetch_data is called at
\* most once, and only by a run that finds self.data unset; a run that finds
\* self.data set leaves it as it is; and after each run portfolio_values and
\* weights_history are the series of that run.
C16_FetchOnceAndLatestStored ==
    [][/\ fetch_calls' <= 1
       /\ fetch_calls' # fetch_calls =>
              (data = <<>> /\ fetch_calls' = fetch_calls + 1)
       /\ data # <<>> => data' = data
       /\ strategy' # "none" =>
              /\ data' # <<>>
              /\ weights_history' = <<WeightsOfRun(strategy', data'[1])>>
              /\ portfolio_values' =
                     <<ValuesOfRun(strategy', data'[1], initial_capital')>>]_vars

\* C16 witness: a run repeated on an instance that fetched once, storing
\* the weights of that run, which are not those of buy-and-hold.
C16_Witness ==
    /\ again
    /\ fetch_calls = 1
    /\ Cardinality(data[1].index) >= 2
    /\ weights_history = <<WeightsOfRun(strategy, data[1])>>
    /\ weights_history # <<WeightsOfRun("BuyAndHold", data[1])>>

====
